---------------------------- MODULE Spec2Model ----------------------------
(***************************************************************************)
(* A model of the ZapZap speed test clients.  The repository holds four    *)
(* script variants of one client:                                          *)
(*   "zap"    src/zap.js            ZapZapSpeedTest, real IP and ping      *)
(*                                  requests, simulated throughput         *)
(*   "real"   src/unnamed/part_001  LibreSpeed, real multi-round transfers *)
(*   "local"  src/unnamed/part_002  ZapZapSpeedTest, everything simulated  *)
(*   "simple" src/unnamed/part_003  LibreSpeed, single-shot transfers      *)
(* Each operation (getIP, testPing, testDownload, testUpload, run) is a    *)
(* sequence of steps split at its awaits.  What the network, the timers    *)
(* and Math.random() answer is chosen by the environment from small sets.  *)
(* Times are in milliseconds, sizes in bytes; quotients are exact          *)
(* rationals [n, d] in lowest terms (floating-point rounding is not        *)
(* modelled).                                                              *)
(***************************************************************************)
EXTENDS Integers, Sequences, FiniteSets, TLC

VARIABLES
    variant,        \* which script variant this instance is
    pingSamples,    \* this.pingSamples
    uploadSize,     \* this.uploadSize
    lastPing,       \* this.lastPing (zap.js only), Undefined until the first testPing
    caller,         \* who awaits the running operation: "run", "direct" or "none"
    opName,         \* the operation in progress, "none" when there is none
    opPc,           \* where the operation in progress stands
    ret,            \* what the last finished operation returned
    opThrew,        \* the last operation let an exception out
    calls,          \* operations the direct caller has invoked so far
    ipIdx,          \* getIP: index of the candidate of the current iteration
    ipReqs,         \* getIP: the candidates this call requested, in order (history)
    fallbackSeen,   \* getIP: every value a fallback branch has returned (history)
    anyResponse,    \* some request of this run got a response (history)
    pingI,          \* testPing: sample index i
    pingJ,          \* testPing: index of the candidate within the sample
    samples,        \* testPing: samples / pingTests
    srcIdx,         \* single-shot testDownload/testUpload: candidate index
    lastReq,        \* the last request made and what the code did with it (history)
    roundCount,     \* throughput loop: roundCount
    totalBytes,     \* throughput loop: totalBytes / totalBytesReceived / totalBytesSent
    totalTime,      \* throughput loop: totalTime / measurementDuration
    stableCount,    \* throughput loop: stableCount
    previousThroughput, \* throughput loop: previousThroughput
    isStable,       \* throughput loop: isStable
    measurements,   \* throughput loop: measurements
    streams,        \* the transfer attempts of the current batch, <<>> before any
    runPc,          \* where run() stands
    active,         \* the phases run() has started and not yet got a result from
    report,         \* run(): the result of each phase, Null until it returned
    returns,        \* run(): how many results each phase has returned (history)
    events,         \* the stage tags run() has delivered to onProgress
    result,         \* what run() returned, Null until it has
    runThrew,       \* whose exception run() rejected with, "no" while none
    testData,       \* this.testData: Null or the array generated last
    testBlob,       \* this.testBlob: Null or the object URL created last
    liveUrls,       \* the object URLs created and not yet revoked
    urlCount        \* how many object URLs have been created

vars == <<variant, pingSamples, uploadSize, lastPing, caller, opName, opPc, ret,
          opThrew, calls, ipIdx, ipReqs, fallbackSeen, anyResponse, pingI, pingJ,
          samples, srcIdx, lastReq, roundCount, totalBytes, totalTime,
          stableCount, previousThroughput, isStable, measurements, streams,
          runPc,
          active, report, returns, events, result, runThrew,
          testData, testBlob, liveUrls, urlCount>>

blobVars  == <<testData, testBlob, liveUrls, urlCount>>
cfgVars   == <<variant, pingSamples, uploadSize, blobVars>>
ipVars    == <<ipIdx, ipReqs, fallbackSeen>>
pingVars  == <<pingI, pingJ, samples, lastPing>>
xferVars  == <<srcIdx>>
loopVars  == <<roundCount, totalBytes, totalTime, stableCount,
               previousThroughput, isStable, measurements, streams>>
runVars   == <<runPc, active, report, returns, events, result, runThrew>>

-----------------------------------------------------------------------------
(* Bounds of the model. *)

MaxPingSamples == 2     \* pingSamples ranges over 1..MaxPingSamples
MaxCalls == 2           \* operations a direct caller invokes in one behaviour
MaxUrls == 3            \* object URLs an instance creates in one behaviour

-----------------------------------------------------------------------------
(* Exact rational arithmetic for the quotients the code computes. *)

RECURSIVE Gcd(_, _)
Gcd(a, b) == IF b = 0 THEN a ELSE Gcd(b, a % b)

Abs(a) == IF a < 0 THEN -a ELSE a

\* n / d in lowest terms, d > 0.
Rat(n, d) ==
    LET g == Gcd(Abs(n), Abs(d))
        s == IF d < 0 THEN -1 ELSE 1
    IN  [n |-> (s * n) \div g, d |-> (s * d) \div g]

RatInt(k) == [n |-> k, d |-> 1]
RatAdd(p, q) ==
    LET g == Gcd(p.d, q.d)
    IN  Rat(p.n * (q.d \div g) + q.n * (p.d \div g), (p.d \div g) * q.d)
RatMul(p, q) ==
    LET g1 == Gcd(Abs(p.n), q.d)
        g2 == Gcd(Abs(q.n), p.d)
        a1 == IF g1 = 0 THEN 1 ELSE g1
        a2 == IF g2 = 0 THEN 1 ELSE g2
    IN  Rat((p.n \div a1) * (q.n \div a2), (p.d \div a2) * (q.d \div a1))
RatDiv(p, q) == RatMul(p, IF q.n < 0 THEN [n |-> -q.d, d |-> -q.n]
                                       ELSE [n |-> q.d, d |-> q.n])
RatSub(p, q) == RatAdd(p, [n |-> -q.n, d |-> q.d])
RatAbs(p) == [n |-> Abs(p.n), d |-> p.d]

RECURSIVE RatLt(_, _)
\* p < q, by integer parts and then the reciprocals of the fractional parts,
\* so that no product is formed.
RatLt(p, q) ==
    LET fp == p.n \div p.d
        fq == q.n \div q.d
        rp == p.n % p.d
        rq == q.n % q.d
    IN  IF fp # fq THEN fp < fq
        ELSE IF rq = 0 THEN FALSE
        ELSE IF rp = 0 THEN TRUE
        ELSE RatLt([n |-> q.d, d |-> rq], [n |-> p.d, d |-> rp])
RatLe(p, q) == ~RatLt(q, p)
RatMax(p, q) == IF RatLt(p, q) THEN q ELSE p

-----------------------------------------------------------------------------
(* Values shared by the operations. *)

Variants == {"zap", "real", "local", "simple"}
Phases == <<"ip", "ping", "download", "upload">>
PhaseSet == {"ip", "ping", "download", "upload"}

Null == [kind |-> "null"]
Undefined == [kind |-> "undefined"]

\* What one fetch can do: reject (network error, CORS rejection, abort by the
\* timeout), answer with a non-2xx status, answer 2xx with a body that
\* cannot be read or parsed, answer 2xx with a good body.
Outcomes == {"reject", "non2xx", "badbody", "ok"}

\* Math.random() in hundredths: a value of [0, 1).
RandomValues == {0, 50, 98}


-----------------------------------------------------------------------------
(* getIP *)

\* JavaScript's a || b on strings, "" standing for undefined (both falsy).
OrElse(a, b) == IF a # "" THEN a ELSE b

NoField == "<no such field>"

EmptyBody == [ip |-> "", query |-> "", ipAddress |-> "", origin |-> "",
              country_code |-> "", country |-> "", country_name |-> "",
              city |-> "", org |-> "", isp |-> ""]
\* The response bodies the IP services may send.
SpecBody == [EmptyBody EXCEPT !.ip = "203.0.113.5", !.country_code = "SG"]
QueryBody == [EmptyBody EXCEPT !.query = "198.51.100.7", !.country = "MY",
                               !.city = "Kuala Lumpur", !.isp = "TM"]
Bodies == {SpecBody, QueryBody, EmptyBody}
NoBody == [kind |-> "nobody"]

\* A request of operation op to its candidate api: how the fetch ended, the
\* body it carried, and whether the code took it as that candidate's success.
Request(op, api, o, b, acc) ==
    [op |-> op, api |-> api, outcome |-> o, body |-> b, accepted |-> acc]
NoRequest == [kind |-> "norequest"]

IpText(t) == [text |-> t, a |-> 0, b |-> 0]

\* The number of entries of ipApis.
NumIpApis(v) ==
    CASE v = "zap" -> 4
      [] v = "real" -> 5
      [] v = "simple" -> 4
      [] OTHER -> 0

\* The object getIP builds from a parsed body.
ParseIP(v, data) ==
    CASE v = "zap" ->
           [ip |-> IpText(OrElse(OrElse(data.ip, data.query), data.ipAddress)),
            country |-> OrElse(OrElse(data.country_code, data.country), "Unknown"),
            city |-> NoField, isp |-> NoField]
      [] v = "real" ->
           [ip |-> IpText(OrElse(OrElse(OrElse(data.ip, data.query), data.origin), "Unknown")),
            country |-> OrElse(OrElse(data.country, data.country_code), "Unknown"),
            city |-> OrElse(data.city, "Unknown"),
            isp |-> OrElse(OrElse(data.org, data.isp), "Unknown")]
      [] OTHER ->
           [ip |-> IpText(OrElse(OrElse(data.ip, data.query), "Unknown")),
            country |-> OrElse(OrElse(data.country, data.country_name), "Unknown"),
            city |-> NoField,
            isp |-> OrElse(OrElse(data.org, data.isp), "Unknown")]

\* Math.floor(Math.random() * 255), r being Math.random() in hundredths.
RandomOctet(r) == (r * 255) \div 100

\* `192.168.${a}.${b}` of zap.js and of the local variant.
GeneratedIP(r1, r2) ==
    [ip |-> [text |-> "192.168.a.b", a |-> RandomOctet(r1), b |-> RandomOctet(r2)],
     country |-> "MY", city |-> NoField, isp |-> NoField]

\* What getIP returns after the loop over ipApis ended without a return.
FallbackIP(v, r1, r2) ==
    CASE v = "zap" -> GeneratedIP(r1, r2)
      [] v = "real" ->
           [ip |-> IpText("192.168.1.1"), country |-> "Unknown",
            city |-> "Unknown", isp |-> "Simulated"]
      [] OTHER ->
           [ip |-> IpText("127.0.0.1 (localhost)"), country |-> "Local",
            city |-> NoField, isp |-> "Local Network"]

\* getIP's answer to one candidate's outcome: TRUE when it returns the parse.
\* A rejected fetch and a body that does not parse end in the catch, a
\* non-2xx status in the continue (real) or past the if (zap, simple).
IpAccepts(o) == o = "ok"

\* A loop that asks the failed candidate again.
SameIpApi(i) == i

\* The candidate the loop takes after candidate i failed.
NextIpApi(i) == i + 1

getIP_begin(who) ==
    /\ caller' = who
    /\ lastReq' = NoRequest
    /\ opName' = "getIP"
    /\ opPc' = "loop"
    /\ ret' = Null
    /\ opThrew' = FALSE
    /\ ipIdx' = 1
    /\ ipReqs' = <<>>

\* What one iteration does with the request's outcome o: the ok test, the
\* parse, and either the return or the step to the next candidate.
IpAttempt(o, body) ==
    LET b == IF o = "ok" THEN body ELSE NoBody IN
    /\ ipReqs' = Append(ipReqs, [api |-> ipIdx, accepted |-> IpAccepts(o)])
    /\ lastReq' = Request("getIP", ipIdx, o, b, IpAccepts(o))
    /\ anyResponse' = (anyResponse \/ o # "reject")
    /\ IF IpAccepts(o)
         THEN /\ ret' = ParseIP(variant, body)
              /\ opPc' = "returned"
              /\ ipIdx' = ipIdx
         ELSE /\ ret' = ret
              /\ opPc' = "loop"
              /\ ipIdx' = NextIpApi(ipIdx)

\* One iteration of `for (const api of ipApis)`: the fetch, the ok test, the
\* parse, and either the return or the step to the next candidate.
getIP_try(Outs) ==
    /\ opName = "getIP" /\ opPc = "loop"
    /\ variant # "local"
    /\ ipIdx <= NumIpApis(variant)
    /\ \E o \in Outs, body \in Bodies : IpAttempt(o, body)
    /\ UNCHANGED <<cfgVars, caller, opName, opThrew, calls, fallbackSeen,
                   pingVars, xferVars, loopVars, runVars>>

\* The same iteration in steps.  First the fetch is issued and awaited.
getIP_fetch ==
    /\ opName = "getIP" /\ opPc = "loop"
    /\ variant # "local"
    /\ ipIdx <= NumIpApis(variant)
    /\ opPc' = "fetching"
    /\ UNCHANGED <<cfgVars, caller, opName, ret, opThrew, calls, ipVars,
                   anyResponse, lastReq, pingVars, xferVars, loopVars, runVars>>

\* The network settles the fetch: a rejection, or the head of a response.
\* After a 2xx head the code awaits the body (response.json()).
getIP_head(Outs) ==
    /\ opName = "getIP" /\ opPc = "fetching"
    /\ \E o \in Outs :
         IF o \in {"reject", "non2xx"}
           THEN IpAttempt(o, NoBody)
           ELSE /\ opPc' = "reading"
                /\ UNCHANGED <<ret, ipVars, anyResponse, lastReq>>
    /\ UNCHANGED <<cfgVars, caller, opName, opThrew, calls, fallbackSeen,
                   pingVars, xferVars, loopVars, runVars>>

\* The body arrives: it parses or it does not.
getIP_body(Outs) ==
    /\ opName = "getIP" /\ opPc = "reading"
    /\ \E o \in Outs \cap {"ok", "badbody"}, body \in Bodies : IpAttempt(o, body)
    /\ UNCHANGED <<cfgVars, caller, opName, opThrew, calls, fallbackSeen,
                   pingVars, xferVars, loopVars, runVars>>

\* Whether a timer can abort the request at this point.  zap.js passes no
\* signal to fetch.  _fetchWithTime of part_001 clears its timer when the
\* head has arrived, before the body is read.  AbortSignal.timeout(5000) of
\* part_003 stays attached to the response and aborts the body as well.
TimeoutArmed(v, pc) ==
    \/ v \in {"real", "simple"} /\ pc = "fetching"
    \/ v = "simple" /\ pc = "reading"

\* The 5 s timer fires: the awaited promise rejects and the catch goes on to
\* the next candidate.
getIP_abort ==
    /\ opName = "getIP"
    /\ TimeoutArmed(variant, opPc)
    /\ IpAttempt(IF opPc = "fetching" THEN "reject" ELSE "badbody", NoBody)
    /\ UNCHANGED <<cfgVars, caller, opName, opThrew, calls, fallbackSeen,
                   pingVars, xferVars, loopVars, runVars>>

\* After the loop: the fallback value.
getIP_fallback ==
    /\ opName = "getIP" /\ opPc = "loop"
    /\ variant # "local"
    /\ ipIdx > NumIpApis(variant)
    /\ \E r1 \in RandomValues, r2 \in RandomValues :
         /\ ret' = FallbackIP(variant, r1, r2)
         /\ fallbackSeen' = fallbackSeen \cup {FallbackIP(variant, r1, r2)}
    /\ opPc' = "returned"
    /\ UNCHANGED <<cfgVars, caller, opName, opThrew, calls, ipIdx, ipReqs,
                   anyResponse, lastReq, pingVars, xferVars, loopVars, runVars>>

\* The local variant's getIP: a 500 ms delay, then a generated address.
getIP_local ==
    /\ opName = "getIP" /\ opPc = "loop"
    /\ variant = "local"
    /\ \E r1 \in RandomValues, r2 \in RandomValues :
         ret' = GeneratedIP(r1, r2)
    /\ opPc' = "returned"
    /\ UNCHANGED <<cfgVars, caller, opName, opThrew, calls, ipVars,
                   anyResponse, lastReq, pingVars, xferVars, loopVars, runVars>>

-----------------------------------------------------------------------------
(* testPing *)

RECURSIVE SumSeq(_)
\* samples.reduce((a, b) => a + b, 0)
SumSeq(s) == IF s = <<>> THEN RatInt(0) ELSE RatAdd(SumSeq(Tail(s)), Head(s))

RECURSIVE MinSeq(_)
\* Math.min(...pingTests)
MinSeq(s) ==
    IF Len(s) = 1 THEN Head(s)
    ELSE LET m == MinSeq(Tail(s)) IN IF RatLe(Head(s), m) THEN Head(s) ELSE m

RECURSIVE MaxSeq(_)
\* Math.max(...pingTests)
MaxSeq(s) ==
    IF Len(s) = 1 THEN Head(s)
    ELSE LET m == MaxSeq(Tail(s)) IN IF RatLe(m, Head(s)) THEN Head(s) ELSE m

\* A mean over the configured number of samples.
AverageOfConfigured(s) == RatDiv(SumSeq(s), RatInt(pingSamples))

\* sum / length
Average(s) == RatDiv(SumSeq(s), RatInt(Len(s)))

\* The number of entries of pingUrls / pingApis / pingTargets.
NumPingApis(v) ==
    CASE v = "zap" -> 4
      [] v = "real" -> 6
      [] v = "simple" -> 4
      [] OTHER -> 0

\* Whether testPing records the elapsed time of a request as a sample.  zap.js
\* tests response.ok; the LibreSpeed variants take whatever _fetchWithTime
\* resolves with, and it resolves with every response.
PingAccepts(v, o) ==
    IF v = "zap" THEN o \in {"ok", "badbody"} ELSE o # "reject"

\* base + Math.random() * span, r being Math.random() in hundredths.
RandomIn(base, span, r) == RatAdd(RatInt(base), Rat(r * span, 100))

\* A synthesized sample of 50 to 200 ms.
WideFallback(r) == RandomIn(50, 150, r)

\* The value pushed for a sample all of whose candidates failed (LibreSpeed).
SampleFallback(r) == RandomIn(50, 50, r)

\* The single value zap.js pushes when no sample succeeded.
ZapFallbackPing(r) == RandomIn(50, 100, r)

\* pingTests after zap.js's `if (pingTests.length === 0)`.
ZapPingTests(s, r) == IF Len(s) = 0 THEN <<ZapFallbackPing(r)>> ELSE s

\* The object testPing returns.
PingResult(v, s) ==
    IF v \in {"zap", "local"}
      THEN [avgMs |-> Average(s), minMs |-> MinSeq(s), maxMs |-> MaxSeq(s)]
      ELSE [avgMs |-> Average(s), samples |-> s]

\* JavaScript's truthiness of this.lastPing.
Truthy(x) == x # Undefined /\ x.n # 0

\* this.lastPing after a testPing of zap.js that measured avgPing.
Smoothed(old, avgPing) ==
    IF Truthy(old)
      THEN IF RatLt(RatInt(500), avgPing)
             THEN RatAdd(RatMul(old, Rat(3, 10)), RatMul(avgPing, Rat(7, 10)))
             ELSE RatAdd(RatMul(old, Rat(7, 10)), RatMul(avgPing, Rat(3, 10)))
      ELSE avgPing

testPing_begin(who) ==
    /\ caller' = who
    /\ lastReq' = NoRequest
    /\ opName' = "testPing"
    /\ opPc' = "loop"
    /\ ret' = Null
    /\ opThrew' = FALSE
    /\ pingI' = 0
    /\ pingJ' = 1
    /\ samples' = <<>>

\* One request of the sample loop.  zap.js makes one request per sample, to
\* pingUrls[i % 4], and goes on to the next sample whatever came of it.  The
\* LibreSpeed variants walk the candidates of the sample until a fetch
\* resolves.
testPing_request(Outs, Durs) ==
    /\ opName = "testPing" /\ opPc = "loop"
    /\ variant # "local"
    /\ pingI < pingSamples
    /\ pingJ <= NumPingApis(variant)
    /\ \E o \in Outs, d \in Durs :
         LET api == IF variant = "zap" THEN (pingI % NumPingApis(variant)) + 1
                                       ELSE pingJ
             acc == PingAccepts(variant, o)
         IN
         /\ lastReq' = Request("testPing", api, o, NoBody, acc)
         /\ anyResponse' = (anyResponse \/ o # "reject")
         /\ samples' = IF acc THEN Append(samples, RatInt(d)) ELSE samples
         /\ pingI' = IF acc \/ variant = "zap" THEN pingI + 1 ELSE pingI
         /\ pingJ' = IF acc \/ variant = "zap" THEN 1 ELSE pingJ + 1
    /\ UNCHANGED <<cfgVars, lastPing, caller, opName, opPc, ret, opThrew, calls,
                   ipVars, xferVars, loopVars, runVars>>

\* LibreSpeed's `if (!success)`: every candidate of the sample was rejected.
testPing_exhausted ==
    /\ opName = "testPing" /\ opPc = "loop"
    /\ variant \in {"real", "simple"}
    /\ pingI < pingSamples
    /\ pingJ > NumPingApis(variant)
    /\ \E r \in RandomValues : samples' = Append(samples, SampleFallback(r))
    /\ pingI' = pingI + 1
    /\ pingJ' = 1
    /\ UNCHANGED <<cfgVars, lastPing, caller, opName, opPc, ret, opThrew, calls,
                   ipVars, anyResponse, lastReq, xferVars, loopVars, runVars>>

\* The local variant's sample: a timer of 50 + Math.random() * 100 ms, measured.
testPing_delay(Late) ==
    /\ opName = "testPing" /\ opPc = "loop"
    /\ variant = "local"
    /\ pingI < pingSamples
    /\ \E r \in RandomValues, late \in Late :
         samples' = Append(samples, RatAdd(RandomIn(50, 100, r), RatInt(late)))
    /\ pingI' = pingI + 1
    /\ UNCHANGED <<cfgVars, lastPing, caller, opName, opPc, ret, opThrew, calls,
                   ipVars, anyResponse, lastReq, pingJ, xferVars, loopVars, runVars>>

\* After the loop: zap.js's fallback, the statistics, lastPing, the return.
testPing_finish ==
    /\ opName = "testPing" /\ opPc = "loop"
    /\ pingI >= pingSamples
    /\ \E r \in RandomValues :
         LET s == IF variant = "zap" THEN ZapPingTests(samples, r) ELSE samples IN
         /\ samples' = s
         /\ ret' = PingResult(variant, s)
         /\ lastPing' = IF variant = "zap" THEN Smoothed(lastPing, Average(s))
                                           ELSE lastPing
    /\ opPc' = "returned"
    /\ UNCHANGED <<cfgVars, caller, opName, opThrew, calls, ipVars, anyResponse,
                   lastReq, pingI, pingJ, xferVars, loopVars, runVars>>

-----------------------------------------------------------------------------
(* testDownload and testUpload of the simple variant: one transfer. *)

MiB == 1024 * 1024

\* this.downloadSize of the LibreSpeed variants, in MB (the default).
downloadSizeMB == 2

\* The number of entries of downloadSources / uploadTargets.
NumSources(op) == IF op = "testDownload" THEN 4 ELSE 3

\* An allocation that throws whatever the length.
AllocAlwaysThrows(n) == TRUE

\* new Uint8Array(n) throws a RangeError for a negative length.
AllocThrows(n) == n < 0

\* Whether the transfer of a candidate is taken as the measurement.  The
\* download reads the body (r.blob()), so a rejected fetch and an unreadable
\* body end in the catch; the upload reads nothing.  Neither tests r.ok.
SingleAccepts(op, o) ==
    IF op = "testDownload" THEN o \in {"non2xx", "ok"} ELSE o # "reject"

\* testDownload's { mbps, sizeMB, sec } for a blob of size bytes read in ms.
DownloadMeasured(size, ms) ==
    LET sizeMB == Rat(size, MiB)
        sec == Rat(ms, 1000)
    IN  [mbps |-> RatDiv(RatMul(sizeMB, RatInt(8)), sec), sizeMB |-> sizeMB, sec |-> sec]

\* testDownload's simulation after every source failed.
DownloadSimulated ==
    LET sizeMB == RatInt(downloadSizeMB)
        sec == RatInt(1)
    IN  [mbps |-> RatDiv(RatMul(sizeMB, RatInt(8)), sec), sizeMB |-> sizeMB, sec |-> sec]

\* testUpload's { mbps, sizeMB, sec, status } for a request that took ms.
UploadMeasured(size, ms, status) ==
    LET sec == Rat(ms, 1000)
    IN  [mbps |-> RatDiv(RatInt(size * 8), RatMul(sec, RatInt(MiB))),
         sizeMB |-> Rat(size, MiB), sec |-> sec, status |-> status]

\* testUpload's simulation after every target failed.
UploadSimulated(size) == UploadMeasured(size, 1000, "200")

single_begin(op, who) ==
    /\ caller' = who
    /\ lastReq' = NoRequest
    /\ opName' = op
    /\ opPc' = "start"
    /\ ret' = Null
    /\ opThrew' = FALSE
    /\ srcIdx' = 1

\* What precedes the loop: testUpload allocates and fills its payload,
\* outside any try.
single_alloc ==
    /\ variant = "simple"
    /\ opName \in {"testDownload", "testUpload"} /\ opPc = "start"
    /\ IF opName = "testUpload" /\ AllocThrows(uploadSize)
         THEN opPc' = "threw" /\ opThrew' = TRUE
         ELSE opPc' = "loop" /\ opThrew' = opThrew
    /\ UNCHANGED <<cfgVars, caller, opName, ret, calls, ipVars, anyResponse,
                   lastReq, pingVars, xferVars, loopVars, runVars>>

\* One iteration of the loop over downloadSources / uploadTargets.
single_request(Outs, Durs, Sizes) ==
    /\ variant = "simple"
    /\ opName \in {"testDownload", "testUpload"} /\ opPc = "loop"
    /\ srcIdx <= NumSources(opName)
    /\ \E o \in Outs, d \in Durs, size \in Sizes :
         LET acc == SingleAccepts(opName, o) IN
         /\ lastReq' = Request(opName, srcIdx, o, NoBody, acc)
         /\ anyResponse' = (anyResponse \/ o # "reject")
         /\ IF acc
              THEN /\ ret' = IF opName = "testDownload"
                               THEN DownloadMeasured(size, d)
                               ELSE UploadMeasured(uploadSize, d, o)
                   /\ opPc' = "returned"
                   /\ srcIdx' = srcIdx
              ELSE /\ ret' = ret
                   /\ opPc' = opPc
                   /\ srcIdx' = srcIdx + 1
    /\ UNCHANGED <<cfgVars, caller, opName, opThrew, calls, ipVars, pingVars,
                   loopVars, runVars>>

\* After the loop: the simulated result.
single_fallback ==
    /\ variant = "simple"
    /\ opName \in {"testDownload", "testUpload"} /\ opPc = "loop"
    /\ srcIdx > NumSources(opName)
    /\ ret' = IF opName = "testDownload" THEN DownloadSimulated
                                         ELSE UploadSimulated(uploadSize)
    /\ opPc' = "returned"
    /\ UNCHANGED <<cfgVars, caller, opName, opThrew, calls, ipVars, anyResponse,
                   lastReq, pingVars, xferVars, loopVars, runVars>>

-----------------------------------------------------------------------------
(* testDownload and testUpload of zap.js and of the local variant (simulated  *)
(* streams) and of the real variant (requests): warm-up, rounds, summary.     *)

\* The streams of one round.
parallelStreams(v, op) == IF v = "real" /\ op = "testUpload" THEN 4 ELSE 6
MaxStreams == 6

\* The round cap of the while loop.
RoundCap(v, op) ==
    IF v = "real" THEN (IF op = "testDownload" THEN 20 ELSE 15)
                  ELSE (IF op = "testDownload" THEN 50 ELSE 30)

maxTestDuration(v, op) ==
    CASE v = "zap" -> 15000
      [] v = "local" -> 20000
      [] OTHER -> IF op = "testDownload" THEN 15000 ELSE 10000

minTestDuration(v, op) ==
    CASE v = "zap" -> 3000
      [] v = "local" -> 5000
      [] OTHER -> IF op = "testDownload" THEN 5000 ELSE 3000

\* The rounds in a row that must qualify.
stabilityWindow(v, op) ==
    CASE v = "zap" -> 3
      [] v = "local" -> IF op = "testDownload" THEN 4 ELSE 3
      [] OTHER -> IF op = "testDownload" THEN 3 ELSE 2

\* The variation threshold.
Tolerance(v, op) ==
    CASE v = "zap" -> IF op = "testDownload" THEN Rat(15, 100) ELSE Rat(20, 100)
      [] OTHER -> IF op = "testDownload" THEN Rat(20, 100) ELSE Rat(25, 100)

\* The delay between two rounds, in ms.
RoundDelay(v, op) ==
    IF v = "real" THEN (IF op = "testDownload" THEN 200 ELSE 300)
                  ELSE (IF op = "testDownload" THEN 50 ELSE 100)

\* chunkSize of the simulated streams.
chunkSize(op) == IF op = "testDownload" THEN MiB ELSE 256 * 1024

\* An estimate taken from the endpoint after the one stream i requested.
NextUrlSize(i) ==
    CASE i \in {3, 6} -> 1048576
      [] i \in {1, 4} -> 2097152
      [] OTHER -> 5242880

\* The size the real download takes for stream i when the response declares
\* none: by the URL of downloadEndpoints[i].
UrlSize(i) ==
    CASE i \in {1, 4} -> 1048576
      [] i \in {2, 5} -> 2097152
      [] OTHER -> 5242880

\* uploadData[i].size of the real upload: dataSizes[i % 3], i from 0.
dataSize(i) ==
    CASE (i - 1) % 3 = 0 -> 256 * 1024
      [] (i - 1) % 3 = 1 -> 512 * 1024
      [] OTHER -> 1024 * 1024

\* A stream's response without a content-length header.
NoHeader == -1

\* The bytes stream i adds to roundBytes.  A simulated stream resolves with
\* its size.  A real stream counts when its fetch was fulfilled with res.ok.
StreamBytes(v, op, i, st) ==
    IF v # "real" THEN chunkSize(op)
    ELSE IF st.outcome \in {"ok", "badbody"}
      THEN IF op = "testUpload" THEN dataSize(i)
           ELSE IF st.contentLength # NoHeader THEN st.contentLength
           ELSE UrlSize(i)
      ELSE 0

RECURSIVE SumBytes(_, _, _, _)
\* roundBytes: the sum over the streams 1..n of the round.
SumBytes(v, op, n, vec) ==
    IF n = 0 THEN 0
    ELSE SumBytes(v, op, n - 1, vec) + StreamBytes(v, op, n, vec[n])

\* currentThroughput of a round, in Mbps.
RoundThroughput(v, bytes, ms) ==
    IF v = "real"
      THEN RatDiv(RatDiv(RatInt(bytes * 8), Rat(ms, 1000)), RatInt(1000000))
      ELSE Rat(bytes * 8, ms * 1000)

\* Whether the round qualifies as stable against the previous one.
WithinTolerance(v, op, cur, prev) ==
    IF v = "zap"
      THEN RatLt(RatDiv(RatAbs(RatSub(cur, prev)), prev), Tolerance(v, op))
      ELSE RatLt(RatAbs(RatSub(cur, prev)), RatMul(prev, Tolerance(v, op)))

\* A counter that counts the first round, which has no previous throughput.
CountsBaseline(v, op, sc, cur, prev) ==
    IF RatLt(RatInt(0), prev)
      THEN IF WithinTolerance(v, op, cur, prev) THEN sc + 1 ELSE 0
      ELSE sc + 1

\* A counter that a round out of tolerance leaves as it is.
KeepsCount(v, op, sc, cur, prev) ==
    IF RatLt(RatInt(0), prev) /\ WithinTolerance(v, op, cur, prev) THEN sc + 1 ELSE sc

\* stableCount after the round.  zap.js leaves the counter alone when there
\* is no previous throughput; the others reset it.
NextStableCount(v, op, sc, cur, prev) ==
    IF RatLt(RatInt(0), prev)
      THEN IF WithinTolerance(v, op, cur, prev) THEN sc + 1 ELSE 0
      ELSE IF v = "zap" THEN sc ELSE 0

\* A test that declares stability whatever the elapsed time.
IgnoresDuration(v, op, sc, t) == sc >= stabilityWindow(v, op)

\* The `if (stableCount >= window && totalTime >= minTestDuration)` that
\* sets isStable and breaks.
DeclaresStable(v, op, sc, t) ==
    sc >= stabilityWindow(v, op) /\ t >= minTestDuration(v, op)

\* A loop without the round cap.
Uncapped(v, op) ==
    /\ totalTime < maxTestDuration(v, op)
    /\ (v = "real" \/ ~isStable)

\* The condition of the while loop.
LoopContinues(v, op) ==
    /\ totalTime < maxTestDuration(v, op)
    /\ roundCount < RoundCap(v, op)
    /\ (v = "real" \/ ~isStable)

RECURSIVE InsertByThroughput(_, _)
InsertByThroughput(m, s) ==
    IF s = <<>> THEN <<m>>
    ELSE IF RatLt(m.throughput, Head(s).throughput) THEN <<m>> \o s
    ELSE <<Head(s)>> \o InsertByThroughput(m, Tail(s))

RECURSIVE SortByThroughput(_)
\* measurements.sort((a, b) => a.throughput - b.throughput)
SortByThroughput(s) ==
    IF s = <<>> THEN <<>>
    ELSE InsertByThroughput(s[Len(s)], SortByThroughput(SubSeq(s, 1, Len(s) - 1)))

\* A slice that trims the upper end only.
KeepsLowest(s) == SubSeq(SortByThroughput(s), 1, (Len(s) * 9) \div 10)

\* sortedMeasurements.slice(startIndex, endIndex) with outlierThreshold 0.1.
StableMeasurements(s) ==
    LET sorted == SortByThroughput(s)
        startIndex == Len(s) \div 10
        endIndex == (Len(s) * 9) \div 10
    IN  SubSeq(sorted, startIndex + 1, endIndex)

\* stableThroughput of zap.js and of the local variant.
StableThroughput(s, overall) ==
    LET kept == StableMeasurements(s) IN
    IF Len(s) > 0 /\ Len(kept) > 0
      THEN Average([k \in 1..Len(kept) |-> kept[k].throughput])
      ELSE overall

\* The object the summary returns.  The quotients are those of the source,
\* (totalBytes * 8) / (totalTime * 1000) and (totalBytesReceived * 8) /
\* ((measurementDuration / 1000) * 1000000), reduced before they are multiplied.
ThroughputResult(v) ==
    IF v = "real"
      THEN [mbps |-> RatMax(RatMul(Rat(totalBytes, totalTime), Rat(8 * 1000, 1000000)),
                            Rat(1, 10))]
      ELSE LET overall == RatMul(Rat(totalBytes, totalTime), Rat(8, 1000)) IN
           [mbps |-> overall,
            stableMbps |-> StableThroughput(measurements, overall),
            totalBytes |-> totalBytes, totalTime |-> totalTime,
            stable |-> isStable, measurements |-> Len(measurements)]

rounds_begin(op, who) ==
    /\ caller' = who
    /\ lastReq' = NoRequest
    /\ opName' = op
    /\ opPc' = "warmup"
    /\ ret' = Null
    /\ opThrew' = FALSE
    /\ roundCount' = 0
    /\ totalBytes' = 0
    /\ totalTime' = 0
    /\ stableCount' = 0
    /\ previousThroughput' = RatInt(0)
    /\ isStable' = FALSE
    /\ measurements' = <<>>
    /\ streams' = <<>>

\* The warm-up: a timer (simulated streams), or one batch of requests whose
\* results are awaited with Promise.allSettled and discarded (real).
rounds_warmup(Vecs) ==
    /\ variant \in {"zap", "local", "real"}
    /\ opName \in {"testDownload", "testUpload"} /\ opPc = "warmup"
    /\ \E vec \in Vecs :
         anyResponse' =
            (anyResponse \/ (variant = "real" /\
                \E i \in 1..parallelStreams(variant, opName) : vec[i].outcome # "reject"))
    /\ opPc' = "loop"
    /\ UNCHANGED <<cfgVars, caller, opName, ret, opThrew, calls, ipVars, lastReq,
                   pingVars, xferVars, loopVars, runVars>>

\* A transfer attempt that has not settled.
Pending == [outcome |-> "pending", contentLength |-> NoHeader]

\* A simulated stream: its timer fires and it resolves with its size.
Fulfilled == [outcome |-> "ok", contentLength |-> NoHeader]

\* What a round does once its streams have settled with vec, roundTime ms
\* after it began: the byte and time accounting, the stability test, the
\* break or the delay before the next round.
RoundAccount(vec, roundTime) ==
    LET n == parallelStreams(variant, opName)
        roundBytes == SumBytes(variant, opName, n, vec)
        delay == IF roundCount = 0 THEN 0 ELSE RoundDelay(variant, opName)
        t == totalTime + delay + roundTime
        cur == RoundThroughput(variant, roundBytes, roundTime)
        sc == NextStableCount(variant, opName, stableCount, cur, previousThroughput)
    IN
    /\ anyResponse' =
         (anyResponse \/ (variant = "real" /\
             \E i \in 1..n : vec[i].outcome # "reject"))
    /\ totalBytes' = totalBytes + roundBytes
    /\ totalTime' = t
    /\ measurements' = Append(measurements,
                         [bytes |-> roundBytes, time |-> roundTime, throughput |-> cur])
    /\ roundCount' = roundCount + 1
    /\ stableCount' = sc
    /\ previousThroughput' = cur
    /\ isStable' = (isStable \/ DeclaresStable(variant, opName, sc, t))
    /\ opPc' = IF DeclaresStable(variant, opName, sc, t) THEN "summary" ELSE "loop"

\* One round of the while loop, taken as one step: the streams are issued,
\* all settle, and the round is accounted.
rounds_round(Vecs, Times) ==
    /\ variant \in {"zap", "local", "real"}
    /\ opName \in {"testDownload", "testUpload"} /\ opPc = "loop"
    /\ LoopContinues(variant, opName)
    /\ \E vec \in Vecs, roundTime \in Times :
         /\ RoundAccount(vec, roundTime)
         /\ streams' = [i \in 1..parallelStreams(variant, opName) |->
                           IF variant = "real" THEN vec[i] ELSE Fulfilled]
    /\ UNCHANGED <<cfgVars, caller, opName, ret, opThrew, calls, ipVars, lastReq,
                   pingVars, xferVars, runVars>>

\* The attempts of the current batch that have not settled.
Outstanding == {i \in DOMAIN streams : streams[i].outcome = "pending"}

\* An await that resumes when the first attempt has settled.
AnySettled == streams # <<>> /\ Outstanding # DOMAIN streams

\* What `await Promise.allSettled(roundPromises)` waits for; Promise.all of
\* zap.js waits for the same, its simulated streams never being rejected.
AllSettled == streams # <<>> /\ Outstanding = {}

\* The same round in steps.  First the loop condition and the synchronous
\* loop (or map) that starts every stream of the round.
round_start ==
    /\ variant \in {"zap", "local", "real"}
    /\ opName \in {"testDownload", "testUpload"} /\ opPc = "loop"
    /\ LoopContinues(variant, opName)
    /\ streams' = [i \in 1..parallelStreams(variant, opName) |-> Pending]
    /\ opPc' = "await"
    /\ UNCHANGED <<cfgVars, caller, opName, ret, opThrew, calls, ipVars, lastReq,
                   anyResponse, pingVars, xferVars, roundCount, totalBytes,
                   totalTime, stableCount, previousThroughput, isStable,
                   measurements, runVars>>

\* One stream settles: a response, a rejection or the abort of its timeout
\* (real), the timer of a simulated stream.
stream_settle(Sts) ==
    /\ opName \in {"testDownload", "testUpload"} /\ opPc = "await"
    /\ \E i \in Outstanding, st \in Sts :
         LET how == IF variant = "real" THEN st ELSE Fulfilled IN
         /\ streams' = [streams EXCEPT ![i] = how]
         /\ anyResponse' = (anyResponse \/ (variant = "real" /\ how.outcome # "reject"))
    /\ UNCHANGED <<cfgVars, caller, opName, opPc, ret, opThrew, calls, ipVars,
                   lastReq, pingVars, xferVars, roundCount, totalBytes,
                   totalTime, stableCount, previousThroughput, isStable,
                   measurements, runVars>>

\* The await of the round resumes and the round is accounted.
round_collect(Times) ==
    /\ opName \in {"testDownload", "testUpload"} /\ opPc = "await"
    /\ AllSettled
    /\ \E roundTime \in Times : RoundAccount(streams, roundTime)
    /\ UNCHANGED <<cfgVars, caller, opName, ret, opThrew, calls, ipVars, lastReq,
                   pingVars, xferVars, streams, runVars>>

\* After the loop: the overall and the stable throughput, and the return.  The
\* real variant throws when measurements is empty and its catch goes on to
\* the fallback test.
rounds_summary ==
    /\ variant \in {"zap", "local", "real"}
    /\ opName \in {"testDownload", "testUpload"}
    /\ opPc = "summary" \/ (opPc = "loop" /\ ~LoopContinues(variant, opName))
    /\ IF variant = "real" /\ Len(measurements) = 0
         THEN opPc' = "fallback" /\ ret' = ret
         ELSE opPc' = "returned" /\ ret' = ThroughputResult(variant)
    /\ UNCHANGED <<cfgVars, caller, opName, opThrew, calls, ipVars, anyResponse,
                   lastReq, pingVars, xferVars, loopVars, runVars>>

-----------------------------------------------------------------------------
(* A caller that invokes one operation at a time, directly. *)

DirectReturn ==
    /\ caller = "direct"
    /\ opPc \in {"returned", "threw"}
    /\ opName' = "none"
    /\ opPc' = "idle"
    /\ caller' = "none"
    /\ UNCHANGED <<cfgVars, ret, opThrew, calls, ipVars, anyResponse, lastReq,
                   pingVars, xferVars, loopVars, runVars>>

CallGetIP ==
    /\ opName = "none" /\ runPc = "idle"
    /\ calls < MaxCalls
    /\ calls' = calls + 1
    /\ getIP_begin("direct")
    /\ UNCHANGED <<cfgVars, fallbackSeen, anyResponse, pingVars, xferVars,
                   loopVars, runVars>>

CallTestPing ==
    /\ opName = "none" /\ runPc = "idle"
    /\ calls < MaxCalls
    /\ calls' = calls + 1
    /\ testPing_begin("direct")
    /\ UNCHANGED <<cfgVars, lastPing, ipVars, anyResponse, xferVars, loopVars,
                   runVars>>

-----------------------------------------------------------------------------
(* run *)

\* Whether run() takes options.onProgress (the LibreSpeed variants do).
HasCallback(v) == v \in {"real", "simple"}

\* The phase after p.
NextPhase(p) ==
    CASE p = "ip" -> "ping"
      [] p = "ping" -> "download"
      [] p = "download" -> "upload"
      [] OTHER -> "complete"

\* The callback told of the next phase before it is told of the result.
SwappedTags(v, cur) ==
    IF v = "real" /\ cur # "" THEN <<NextPhase(cur), cur>>
    ELSE IF cur = "" THEN <<"ip">> ELSE <<NextPhase(cur)>>

\* The onProgress calls run() makes, in order, between getting the result of
\* phase cur ("" at the start) and awaiting the next phase (or returning).
StepTags(v, cur) ==
    CASE v = "real" -> IF cur = "" THEN <<"ip">> ELSE <<cur, NextPhase(cur)>>
      [] v = "simple" -> IF cur = "" THEN <<"ip">> ELSE <<NextPhase(cur)>>
      [] OTHER -> <<>>

\* Only the real variant has the catch that reports an error event.
Caught(v) == IF v = "real" THEN <<"error">> ELSE <<>>

\* The events delivered when the k-th of tags throws (k = 0: none throws).
Delivered(v, tags, k) ==
    IF k = 0 THEN tags ELSE SubSeq(tags, 1, k) \o Caught(v)

\* A call that is not awaited.
NotAwaited == caller = "run"

\* `await`: run() goes on when the operation it called has settled.
Awaited == caller = "run" /\ opPc \in {"returned", "threw"}

\* The phases whose operation has settled.
Settled == IF opPc \in {"returned", "threw"} THEN {runPc} ELSE {}

\* run() rejects: the exception leaves it (after the catch, where there is
\* one).  why tells whose exception it is: a phase's or the callback's.
run_rejects(evs, why) ==
    /\ events' = evs
    /\ runThrew' = why
    /\ runPc' = "threw"
    /\ active' = {}
    /\ caller' = "none"
    /\ opName' = "none"
    /\ opPc' = "idle"
    /\ ret' = Null
    /\ result' = result

ip_clear == ipIdx' = 1 /\ ipReqs' = <<>>
ping_clear == pingI' = 0 /\ pingJ' = 1 /\ samples' = <<>>
rounds_clear ==
    /\ roundCount' = 0 /\ totalBytes' = 0 /\ totalTime' = 0 /\ stableCount' = 0
    /\ previousThroughput' = RatInt(0) /\ isStable' = FALSE /\ measurements' = <<>>
    /\ streams' = <<>>

\* The transfer operation of the variant begins.
transfer_begin(op, who) ==
    IF variant = "simple"
      THEN single_begin(op, who) /\ UNCHANGED loopVars
      ELSE rounds_begin(op, who) /\ UNCHANGED srcIdx

\* run() up to `await this.getIP()`.
run_start(Throws) ==
    /\ runPc = "idle" /\ opName = "none" /\ calls = 0
    /\ \E k \in Throws :
         LET tags == StepTags(variant, "") IN
         /\ k <= Len(tags)
         /\ IF k > 0
              THEN /\ run_rejects(events \o Delivered(variant, tags, k), "callback")
                   /\ UNCHANGED <<opThrew, lastReq, ipIdx, ipReqs>>
              ELSE /\ events' = events \o tags
                   /\ getIP_begin("run")
                   /\ runPc' = "ip"
                   /\ active' = active \cup {"ip"}
                   /\ UNCHANGED <<result, runThrew>>
    /\ UNCHANGED <<cfgVars, calls, fallbackSeen, anyResponse, pingVars, xferVars,
                   loopVars, report, returns>>

\* From the result of getIP to `await this.testPing()`.
run_toPing(Throws) ==
    /\ runPc = "ip" /\ Awaited
    /\ ip_clear
    /\ \E k \in Throws :
         LET tags == StepTags(variant, "ip") IN
         /\ k <= Len(tags)
         /\ IF opPc = "threw"
              THEN /\ run_rejects(events \o Caught(variant), "phase")
                   /\ UNCHANGED <<report, returns, opThrew, lastReq, pingI, pingJ, samples>>
              ELSE /\ report' = [report EXCEPT !["ip"] = ret]
                   /\ returns' = [returns EXCEPT !["ip"] = @ + 1]
                   /\ IF k > 0
                        THEN /\ run_rejects(events \o Delivered(variant, tags, k), "callback")
                             /\ UNCHANGED <<opThrew, lastReq, pingI, pingJ, samples>>
                        ELSE /\ events' = events \o tags
                             /\ testPing_begin("run")
                             /\ runPc' = "ping"
                             /\ active' = (active \ Settled) \cup {"ping"}
                             /\ UNCHANGED <<result, runThrew>>
    /\ UNCHANGED <<cfgVars, calls, fallbackSeen, anyResponse, lastPing, xferVars,
                   loopVars>>

\* From the result of testPing to `await this.testDownload()`, and from the
\* result of testDownload to `await this.testUpload()`.
run_toTransfer(Throws) ==
    /\ runPc \in {"ping", "download"} /\ Awaited
    /\ ping_clear
    /\ \E k \in Throws :
         LET tags == StepTags(variant, runPc)
             next == NextPhase(runPc)
             op == IF next = "download" THEN "testDownload" ELSE "testUpload"
         IN
         /\ k <= Len(tags)
         /\ IF opPc = "threw"
              THEN /\ run_rejects(events \o Caught(variant), "phase")
                   /\ UNCHANGED <<report, returns, opThrew, lastReq, xferVars, loopVars>>
              ELSE /\ report' = [report EXCEPT ![runPc] = ret]
                   /\ returns' = [returns EXCEPT ![runPc] = @ + 1]
                   /\ IF k > 0
                        THEN /\ run_rejects(events \o Delivered(variant, tags, k), "callback")
                             /\ UNCHANGED <<opThrew, lastReq, xferVars, loopVars>>
                        ELSE /\ events' = events \o tags
                             /\ transfer_begin(op, "run")
                             /\ runPc' = next
                             /\ active' = (active \ Settled) \cup {next}
                             /\ UNCHANGED <<result, runThrew>>
    /\ UNCHANGED <<cfgVars, calls, ipVars, anyResponse, lastPing>>

\* What run() returns.
Report(up) ==
    [ip |-> report["ip"], ping |-> report["ping"], download |-> report["download"],
     upload |-> up, timestamp |-> "ISO-8601"]

\* A clean-up that revokes the URL and keeps the field.
CleanupKeepsField ==
    IF variant \in {"zap", "local"} /\ testBlob # Null
      THEN /\ liveUrls' = liveUrls \ {testBlob.url}
           /\ testBlob' = testBlob
      ELSE UNCHANGED <<testBlob, liveUrls>>

\* The clean-up of run() in zap.js and in the local variant.
run_cleanup ==
    IF variant \in {"zap", "local"} /\ testBlob # Null
      THEN /\ liveUrls' = liveUrls \ {testBlob.url}
           /\ testBlob' = Null
      ELSE UNCHANGED <<testBlob, liveUrls>>

\* From the result of testUpload to the return: the clean-up of testBlob, the
\* last events, the result object.  A run that throws skips the clean-up.
run_end(Throws) ==
    /\ runPc = "upload" /\ Awaited
    /\ srcIdx' = 1
    /\ rounds_clear
    /\ \E k \in Throws :
         LET tags == IF variant = "real" THEN <<"upload", "complete">>
                     ELSE IF variant = "simple" THEN <<"complete">>
                     ELSE <<>>
         IN
         /\ k <= Len(tags)
         /\ IF opPc = "threw"
              THEN /\ run_rejects(events \o Caught(variant), "phase")
                   /\ UNCHANGED <<report, returns, testBlob, liveUrls>>
              ELSE /\ report' = [report EXCEPT !["upload"] = ret]
                   /\ returns' = [returns EXCEPT !["upload"] = @ + 1]
                   /\ run_cleanup
                   /\ IF k > 0
                        THEN run_rejects(events \o Delivered(variant, tags, k), "callback")
                        ELSE /\ events' = events \o tags
                             /\ result' = Report(ret)
                             /\ runPc' = "done"
                             /\ active' = active \ Settled
                             /\ caller' = "none"
                             /\ opName' = "none"
                             /\ opPc' = "idle"
                             /\ ret' = Null
                             /\ runThrew' = runThrew
    /\ UNCHANGED <<variant, pingSamples, uploadSize, testData, urlCount, calls,
                   ipVars, anyResponse, pingVars, opThrew, lastReq>>

-----------------------------------------------------------------------------
(* testDownloadFallback and testUploadFallback of the real variant.  The     *)
(* model calls them directly; testPing, which they await, runs as the       *)
(* operation with the fallback as its caller.                               *)

FallbackOps == {"testDownloadFallback", "testUploadFallback"}

\* const requests = 20
FallbackRequests == 20

\* What a response adds to totalSize: its content-length, or 2000.
FallbackBytes(st) ==
    IF st.outcome \in {"ok", "badbody"}
      THEN IF st.contentLength # NoHeader THEN st.contentLength ELSE 2000
      ELSE 0

RECURSIVE FallbackSize(_, _)
\* totalSize over the results 1..n.
FallbackSize(vec, n) ==
    IF n = 0 THEN 0 ELSE FallbackSize(vec, n - 1) + FallbackBytes(vec[n])

\* successCount
SuccessCount(vec) == Cardinality({i \in DOMAIN vec : vec[i].outcome \in {"ok", "badbody"}})

\* `await Promise.all(promises)` rejects as soon as one request does.
BatchRejects(vec) == \E i \in DOMAIN vec : vec[i].outcome = "reject"

\* { mbps: Math.max(mbps, 1.0) } of a batch of totalSize bytes in ms.
FallbackMeasured(totalSize, ms) ==
    [mbps |-> RatMax(RatDiv(RatDiv(RatInt(totalSize * 8), Rat(ms, 1000)), RatInt(1000000)),
                     RatInt(1))]

\* simulatedSpeed of testDownloadFallback for the ping avgPing.
DownloadEstimate(avgPing, r) ==
    IF RatLt(avgPing, RatInt(20)) THEN RandomIn(120, 180, r)
    ELSE IF RatLt(avgPing, RatInt(50)) THEN RandomIn(60, 140, r)
    ELSE IF RatLt(avgPing, RatInt(100)) THEN RandomIn(30, 95, r)
    ELSE IF RatLt(avgPing, RatInt(200)) THEN RandomIn(15, 45, r)
    ELSE RandomIn(8, 22, r)

\* simulatedSpeed of testUploadFallback for the ping avgPing.
UploadEstimate(avgPing, r) ==
    IF RatLt(avgPing, RatInt(20)) THEN RandomIn(50, 100, r)
    ELSE IF RatLt(avgPing, RatInt(50)) THEN RandomIn(25, 75, r)
    ELSE IF RatLt(avgPing, RatInt(100)) THEN RandomIn(10, 50, r)
    ELSE RandomIn(5, 25, r)

fallback_begin(op, who) ==
    /\ caller' = who
    /\ lastReq' = NoRequest
    /\ opName' = op
    /\ opPc' = "start"
    /\ ret' = Null
    /\ opThrew' = FALSE
    /\ rounds_clear

\* testDownloadFallback's try block: the twenty requests, the await of all of
\* them, the sum over the results.  A rejected await and a batch without a
\* success end in the catch.  totalBytes and totalTime stand for totalSize
\* and duration, which exist only when the await resolved.
fallback_batch(Vecs, Durs) ==
    /\ variant = "real"
    /\ opName = "testDownloadFallback" /\ opPc = "start"
    /\ \E vec \in Vecs, d \in Durs :
         /\ streams' = vec
         /\ anyResponse' = (anyResponse \/ \E i \in DOMAIN vec : vec[i].outcome # "reject")
         /\ IF BatchRejects(vec)
              THEN /\ opPc' = "caught"
                   /\ UNCHANGED <<ret, totalBytes, totalTime>>
              ELSE /\ totalBytes' = FallbackSize(vec, Len(vec))
                   /\ totalTime' = d
                   /\ IF SuccessCount(vec) = 0
                        THEN opPc' = "caught" /\ ret' = ret
                        ELSE /\ opPc' = "returned"
                             /\ ret' = FallbackMeasured(FallbackSize(vec, Len(vec)), d)
    /\ UNCHANGED <<cfgVars, caller, opName, opThrew, calls, ipVars, lastReq,
                   pingVars, xferVars, roundCount, stableCount,
                   previousThroughput, isStable, measurements, runVars>>

\* `await this.testPing()`: the first statement of testUploadFallback, and of
\* the catch of testDownloadFallback.
fallback_ping ==
    /\ variant = "real"
    /\ \/ opName = "testDownloadFallback" /\ opPc = "caught"
       \/ opName = "testUploadFallback" /\ opPc = "start"
    /\ testPing_begin(opName)
    /\ UNCHANGED <<cfgVars, lastPing, calls, ipVars, anyResponse, xferVars,
                   loopVars, runVars>>

\* testPing has returned to the fallback: the speed is drawn from the range
\* of the ping's tier.  testPing of the real variant never throws, so the
\* inner catch is not taken.
fallback_estimate(Rands) ==
    /\ opName = "testPing" /\ opPc = "returned"
    /\ caller \in FallbackOps
    /\ \E r \in Rands :
         ret' = [mbps |-> IF caller = "testDownloadFallback"
                            THEN DownloadEstimate(ret.avgMs, r)
                            ELSE UploadEstimate(ret.avgMs, r)]
    /\ opName' = caller
    /\ caller' = "direct"
    /\ ping_clear
    /\ UNCHANGED <<cfgVars, lastPing, opPc, opThrew, calls, ipVars, anyResponse,
                   lastReq, xferVars, loopVars, runVars>>

CallFallback(ops) ==
    /\ opName = "none" /\ runPc = "idle"
    /\ variant = "real"
    /\ calls < MaxCalls
    /\ calls' = calls + 1
    /\ \E op \in ops : fallback_begin(op, "direct")
    /\ UNCHANGED <<cfgVars, ipVars, anyResponse, pingVars, xferVars, runVars>>

-----------------------------------------------------------------------------
(* generateTestData and createTestBlob of ZapZapSpeedTest (zap.js and the    *)
(* local variant), synchronous methods a caller may invoke at any time.     *)

\* A length over the largest a typed array may have; it stands for every
\* such length.
HugeSize == 2147483647

\* new Uint8Array(size) throws a RangeError for a length that is not valid:
\* a negative one, or one over the largest length of a typed array.
InvalidLength(size) == size < 0 \/ size >= HugeSize

\* Whether generateTestData(size) answers from the array it holds.
Reuses(d, size) == d # Null /\ d.byteLength >= size

\* this.testData after generateTestData(size): the array held is kept when
\* it is long enough or when the allocation throws.
DataAfter(d, size) ==
    IF Reuses(d, size) \/ InvalidLength(size) THEN d ELSE [byteLength |-> size]

generateTestData(Sizes) ==
    /\ variant \in {"zap", "local"}
    /\ \E size \in Sizes :
         /\ ~Reuses(testData, size)
         /\ testData' = DataAfter(testData, size)
    /\ UNCHANGED <<variant, pingSamples, uploadSize, testBlob, liveUrls, urlCount,
                   lastPing, caller, opName, opPc, ret, opThrew, calls, ipVars,
                   anyResponse, lastReq, pingI, pingJ, samples, xferVars,
                   loopVars, runVars>>

\* createTestBlob(size): the URL held is revoked, the data generated, a new
\* URL created and stored.  When generateTestData throws, the method ends
\* after the revocation.
createTestBlob(Sizes) ==
    /\ variant \in {"zap", "local"}
    /\ urlCount < MaxUrls
    /\ \E size \in Sizes :
         LET revoked == IF testBlob # Null THEN liveUrls \ {testBlob.url} ELSE liveUrls
             throws == ~Reuses(testData, size) /\ InvalidLength(size)
         IN
         /\ testData' = DataAfter(testData, size)
         /\ IF throws
              THEN /\ liveUrls' = revoked
                   /\ UNCHANGED <<testBlob, urlCount>>
              ELSE /\ urlCount' = urlCount + 1
                   /\ testBlob' = [url |-> urlCount + 1]
                   /\ liveUrls' = revoked \cup {urlCount + 1}
    /\ UNCHANGED <<variant, pingSamples, uploadSize, lastPing, caller, opName,
                   opPc, ret, opThrew, calls, ipVars, anyResponse, lastReq,
                   pingI, pingJ, samples, xferVars, loopVars, runVars>>

-----------------------------------------------------------------------------
(* The instance after construction. *)

UploadSizes(v) ==
    CASE v \in {"zap", "local"} -> {1024 * 1024, -1}
      [] OTHER -> {256 * 1024, -1}

Init ==
    /\ variant \in Variants
    /\ pingSamples \in 1..MaxPingSamples
    /\ uploadSize \in UploadSizes(variant)
    /\ lastPing = Undefined
    /\ caller = "none"
    /\ opName = "none"
    /\ opPc = "idle"
    /\ ret = Null
    /\ opThrew = FALSE
    /\ calls = 0
    /\ ipIdx = 1
    /\ ipReqs = <<>>
    /\ fallbackSeen = {}
    /\ anyResponse = FALSE
    /\ pingI = 0
    /\ pingJ = 1
    /\ samples = <<>>
    /\ srcIdx = 1
    /\ lastReq = NoRequest
    /\ roundCount = 0
    /\ totalBytes = 0
    /\ totalTime = 0
    /\ stableCount = 0
    /\ previousThroughput = RatInt(0)
    /\ isStable = FALSE
    /\ measurements = <<>>
    /\ streams = <<>>
    /\ runPc = "idle"
    /\ active = {}
    /\ report = [p \in PhaseSet |-> Null]
    /\ returns = [p \in PhaseSet |-> 0]
    /\ events = <<>>
    /\ result = Null
    /\ runThrew = "no"
    /\ testData = Null
    /\ testBlob = Null
    /\ liveUrls = {}
    /\ urlCount = 0

-----------------------------------------------------------------------------
(* getIP called directly, any number of times up to MaxCalls. *)

NextIP ==
    \/ CallGetIP
    \/ getIP_try(Outcomes)
    \/ getIP_fallback
    \/ getIP_local
    \/ DirectReturn

SpecIP == Init /\ [][NextIP]_vars

\* getIP step by step against a network that may stay silent.  The steps of
\* the code and its timers are taken when they can be; the network owes
\* nothing.
NextIPSteps ==
    \/ CallGetIP
    \/ getIP_fetch
    \/ getIP_head(Outcomes)
    \/ getIP_body(Outcomes)
    \/ getIP_abort
    \/ getIP_fallback
    \/ getIP_local
    \/ DirectReturn

SpecIPSteps ==
    /\ Init /\ [][NextIPSteps]_vars
    /\ WF_vars(getIP_fetch) /\ WF_vars(getIP_abort)
    /\ WF_vars(getIP_fallback) /\ WF_vars(getIP_local)

-----------------------------------------------------------------------------
(* testPing called directly, any number of times up to MaxCalls. *)

\* How long a timer may fire after it was due, in ms.
TimerLate == {0, 4}

\* The elapsed times a ping request may measure, in ms.
PingDurations == {12, 40, 620}

\* Elapsed times read from a clock of coarse resolution, on which a quick
\* request measures 0 ms.
CoarseDurations == {0, 40, 620}

NextPingCoarse ==
    \/ CallTestPing
    \/ testPing_request(Outcomes, CoarseDurations)
    \/ testPing_exhausted
    \/ testPing_delay(TimerLate)
    \/ testPing_finish
    \/ DirectReturn

SpecPingCoarse == Init /\ [][NextPingCoarse]_vars

NextPing ==
    \/ CallTestPing
    \/ testPing_request(Outcomes, PingDurations)
    \/ testPing_exhausted
    \/ testPing_delay(TimerLate)
    \/ testPing_finish
    \/ DirectReturn

SpecPing == Init /\ [][NextPing]_vars

-----------------------------------------------------------------------------
(* One run() per instance, against any network. *)

\* Which onProgress call of a step throws: none, the first or the second.
ThrowAt == {0, 1, 2}

\* The elapsed times a request of run() may measure, in ms.
RunDurations == {40}

\* The sizes of the bodies the simple download may read, in bytes.
BlobSizes == {0, 2 * MiB}

\* What the streams of one round may do: all alike.
StreamOutcomes ==
    {[outcome |-> "reject", contentLength |-> NoHeader],
     [outcome |-> "non2xx", contentLength |-> NoHeader],
     [outcome |-> "ok", contentLength |-> NoHeader]}
UniformRounds == {[i \in 1..MaxStreams |-> st] : st \in StreamOutcomes}

\* The times a round may take, in ms.
RoundTimes == {4096}

Next ==
    \/ run_start(ThrowAt)
    \/ run_toPing(ThrowAt)
    \/ run_toTransfer(ThrowAt)
    \/ run_end(ThrowAt)
    \/ getIP_try(Outcomes)
    \/ getIP_fallback
    \/ getIP_local
    \/ testPing_request(Outcomes, RunDurations)
    \/ testPing_exhausted
    \/ testPing_delay(TimerLate)
    \/ testPing_finish
    \/ single_alloc
    \/ single_request(Outcomes, RunDurations, BlobSizes)
    \/ single_fallback
    \/ rounds_warmup(UniformRounds)
    \/ rounds_round(UniformRounds, RoundTimes)
    \/ rounds_summary

Spec == Init /\ [][Next]_vars

-----------------------------------------------------------------------------
(* testDownload and testUpload called directly, round by round. *)

\* A caller invokes one of the transfer operations ops.
CallTransfer(ops) ==
    /\ opName = "none" /\ runPc = "idle"
    /\ calls < MaxCalls
    /\ calls' = calls + 1
    /\ \E op \in ops : transfer_begin(op, "direct")
    /\ UNCHANGED <<cfgVars, ipVars, anyResponse, pingVars, runVars>>

TransferOps == {"testDownload", "testUpload"}

\* What the streams of a round may do: all answer, or all are rejected.
AllOrNothing ==
    {[i \in 1..MaxStreams |-> st] :
        st \in {[outcome |-> "ok", contentLength |-> NoHeader],
                [outcome |-> "reject", contentLength |-> NoHeader]}}

\* The streams of a round all answer.
AllAnswer == {[i \in 1..MaxStreams |-> [outcome |-> "ok", contentLength |-> NoHeader]]}

\* The streams of a round are all rejected.
AllRejected == {[i \in 1..MaxStreams |-> [outcome |-> "reject", contentLength |-> NoHeader]]}

\* Rounds whose streams fare differently: the streams of Rej are rejected,
\* those of Hdr answer 200 with a content-length of 1000, stream 6 answers
\* with a non-2xx status, the others answer 200 without a content-length.
PatchyVecs ==
    {[i \in 1..MaxStreams |->
        IF i \in Rej THEN [outcome |-> "reject", contentLength |-> NoHeader]
        ELSE IF i \in Hdr THEN [outcome |-> "ok", contentLength |-> 1000]
        ELSE IF i = 6 THEN [outcome |-> "non2xx", contentLength |-> NoHeader]
        ELSE [outcome |-> "ok", contentLength |-> NoHeader]] :
     Rej \in {{}, {1}, {2, 3}}, Hdr \in {{}, {3}, {1, 2, 4, 6}}}

\* Round times of a link whose rate changes from round to round, so that no
\* two rounds in a row are within the tolerance.
UnevenRounds == <<1024, 2048, 512, 4096, 256, 2048, 1024, 128, 2048, 4096>>

\* The networks a call may meet, told apart by their first round.  A slow
\* network: every round takes 2048 or 4096 ms and answers or not.  A steady
\* one: every round takes 512 ms and does as the first did.  A jittery one:
\* rounds of 128 and 256 ms in turn, doing as the first did.  An uneven one:
\* the round times of UnevenRounds, doing as the first did.  A patchy one:
\* every round takes 8192 ms and, after the first, its streams fare as one of
\* PatchyVecs.  A stalled one: the first round takes 32768 ms, longer
\* than any maxTestDuration, and is the only round.
ScenarioTimes ==
    IF measurements = <<>> THEN {128, 512, 1024, 2048, 4096, 8192, 32768}
    ELSE IF measurements[1].time = 8192 THEN {8192}
    ELSE IF measurements[1].time >= 2048 THEN {2048, 4096}
    ELSE IF measurements[1].time = 1024
      THEN {UnevenRounds[IF Len(measurements) < Len(UnevenRounds)
                           THEN Len(measurements) + 1 ELSE Len(UnevenRounds)]}
    ELSE IF measurements[1].time = 512 THEN {512}
    ELSE IF measurements[Len(measurements)].time = 128 THEN {256} ELSE {128}

ScenarioVecs ==
    IF measurements = <<>> THEN AllOrNothing
    ELSE IF measurements[1].time = 8192 THEN PatchyVecs
    ELSE IF measurements[1].time >= 2048 THEN AllOrNothing
    ELSE IF measurements[1].bytes = 0 THEN AllRejected ELSE AllAnswer

\* The single transfer of the simple variant: 1,000,000 bytes in 100 ms.
MegabyteBlob == {1000000}
TenthOfSecond == {100}

NextRounds ==
    \/ CallTransfer(TransferOps)
    \/ DirectReturn
    \/ rounds_warmup(AllOrNothing)
    \/ rounds_round(ScenarioVecs, ScenarioTimes)
    \/ rounds_summary
    \/ single_alloc
    \/ single_request(Outcomes, TenthOfSecond, MegabyteBlob)
    \/ single_fallback

SpecRounds == Init /\ [][NextRounds]_vars

-----------------------------------------------------------------------------
(* The throughput phases called directly, stream by stream, and the         *)
(* fallback tests of the real variant.                                      *)

CallRounds ==
    /\ variant \in {"zap", "local", "real"}
    /\ CallTransfer(TransferOps)

\* What a stream may do: answer or be rejected (a network error or the abort
\* of its timeout) in the first round, answer in the later ones.
ScenarioSettles ==
    IF roundCount = 0
      THEN {[outcome |-> "ok", contentLength |-> NoHeader],
            [outcome |-> "reject", contentLength |-> NoHeader]}
      ELSE {[outcome |-> "ok", contentLength |-> NoHeader]}

\* Rounds long enough for the time limit to end the loop after two or three.
LongRounds == {8192}

\* The requests of a fallback batch: those of Failing are rejected or
\* answered with an error status, the others answered with or without a
\* content-length.
FailingSets == {{}, {7}, 1..10, 1..FallbackRequests}
FallbackBatches ==
    {[i \in 1..FallbackRequests |->
         IF i \in F THEN [outcome |-> bad, contentLength |-> NoHeader]
                    ELSE [outcome |-> "ok", contentLength |-> cl]] :
       F \in FailingSets, bad \in {"reject", "non2xx"}, cl \in {NoHeader, 250000}}
FallbackDurations == {500, 2000}

NextStreams ==
    \/ CallRounds
    \/ CallFallback(FallbackOps)
    \/ DirectReturn
    \/ rounds_warmup(AllOrNothing)
    \/ round_start
    \/ stream_settle(ScenarioSettles)
    \/ round_collect(LongRounds)
    \/ rounds_summary
    \/ fallback_batch(FallbackBatches, FallbackDurations)
    \/ fallback_ping
    \/ fallback_estimate(RandomValues)
    \/ testPing_request({"reject", "ok"}, PingDurations)
    \/ testPing_exhausted
    \/ testPing_finish

SpecStreams == Init /\ [][NextStreams]_vars

-----------------------------------------------------------------------------
(* One run() with calls of generateTestData and createTestBlob before,     *)
(* during and after it, on a network that answers nothing.                  *)

\* The sizes a caller asks for; -1 stands for a length that is not valid.
PayloadSizes == {-1, 1024, 4096, HugeSize}

NextBlob ==
    \/ generateTestData(PayloadSizes)
    \/ createTestBlob(PayloadSizes)
    \/ run_start({0})
    \/ run_toPing({0})
    \/ run_toTransfer({0})
    \/ run_end({0})
    \/ getIP_try({"reject"})
    \/ getIP_fallback
    \/ getIP_local
    \/ testPing_request({"reject"}, RunDurations)
    \/ testPing_exhausted
    \/ testPing_delay({0})
    \/ testPing_finish
    \/ single_alloc
    \/ single_request({"reject"}, RunDurations, BlobSizes)
    \/ single_fallback
    \/ rounds_warmup(AllRejected)
    \/ rounds_round(AllRejected, RoundTimes)
    \/ rounds_summary

SpecBlob == Init /\ [][NextBlob]_vars

-----------------------------------------------------------------------------
(* Properties *)

\* The place of a phase in the order of run().
PhaseRank(p) == CHOOSE i \in 1..Len(Phases) : Phases[i] = p

\* A phase that run() has called.
Started(p) == p \in active \/ returns[p] > 0

\* C1: in every variant run() executes IP lookup, latency, download, upload
\* in that order: a phase is started only after the previous phase has
\* returned its result, and no two phases are in progress at the same time.
C1_PhaseOrder ==
    /\ Cardinality(active) <= 1
    /\ \A p \in PhaseSet :
         Started(p) =>
           \A q \in PhaseSet :
             PhaseRank(q) < PhaseRank(p) =>
               /\ q \notin active
               /\ returns[q] = 1
               /\ report[q] # Null

\* The upload is in progress, the three phases before it have returned.
C1_Witness ==
    /\ active = {"upload"}
    /\ opName = "testUpload" /\ opPc \in {"loop", "warmup"}
    /\ returns["download"] = 1

\* The place of a stage tag in the sequence of a run.
StageRank(t) ==
    CASE t = "ip" -> 1
      [] t = "ping" -> 2
      [] t = "download" -> 3
      [] t = "upload" -> 4
      [] t = "complete" -> 5
      [] OTHER -> 6

\* C2: the stage tags delivered to the progress callback are ordered ip, ping,
\* download, upload, complete (no stage after a later stage), at most one
\* error event is delivered, and an error event is the last event of the run.
C2_EventOrder ==
    \A i \in 1..Len(events) : \A j \in 1..Len(events) :
        i < j => /\ events[i] # "error"
                 /\ StageRank(events[i]) <= StageRank(events[j])

\* A run of the real variant that got as far as the download and ended with
\* the error event.
C2_Witness ==
    /\ variant = "real"
    /\ Len(events) >= 6
    /\ events[Len(events)] = "error"

\* C3: every phase operation produces exactly one non-null result and lets no
\* error reach its caller, whatever the requests do; so run() does not throw
\* under the default configuration (a valid upload size, a callback that does
\* not throw).
C3_OnePhaseResult ==
    /\ uploadSize >= 0 => ~opThrew /\ runThrew # "phase"
    /\ opPc = "returned" => ret # Null
    /\ \A p \in PhaseSet :
         /\ returns[p] <= 1
         /\ returns[p] = 1 => report[p] # Null
    /\ runPc = "done" => \A p \in PhaseSet : returns[p] = 1

\* The single-shot upload returned its simulated result after every one of
\* its targets was rejected.
C3_Witness ==
    /\ variant = "simple"
    /\ opName = "testUpload" /\ opPc = "returned"
    /\ srcIdx > NumSources("testUpload")
    /\ lastReq # NoRequest /\ lastReq.outcome = "reject"
    /\ ret # Null

\* C4: when every network request fails, run() completes without throwing and
\* returns a report with ip, ping, download, upload and timestamp, with
\* download.mbps > 0, upload.mbps > 0 and ping.avgMs within 50 to 150 ms.
C4_TotalFailureReport ==
    (variant # "local" /\ ~anyResponse /\ uploadSize >= 0) =>
        /\ runThrew # "phase"
        /\ runPc = "done" =>
             /\ result # Null
             /\ result.ip # Null /\ result.ping # Null
             /\ result.download # Null /\ result.upload # Null
             /\ result.timestamp = "ISO-8601"
             /\ RatLt(RatInt(0), result.download.mbps)
             /\ RatLt(RatInt(0), result.upload.mbps)
             /\ RatLe(RatInt(50), result.ping.avgMs)
             /\ RatLe(result.ping.avgMs, RatInt(150))

\* A run of the real variant all of whose requests were rejected has returned.
C4_Witness ==
    /\ variant = "real"
    /\ runPc = "done"
    /\ ~anyResponse
    /\ result # Null

\* C5: getIP with every candidate failing returns the designated fallback
\* value, the same value on every such call.
C5_SameFallback == Cardinality(fallbackSeen) <= 1

\* C6: getIP asks its candidates in list order, first success wins: candidate
\* k is asked only after 1..k-1 have failed, each candidate at most once per
\* call, and none after the first that succeeded.
C6_CandidateOrder ==
    /\ Len(ipReqs) <= NumIpApis(variant)
    /\ \A i \in 1..Len(ipReqs) :
         /\ ipReqs[i].api = i
         /\ ipReqs[i].accepted => i = Len(ipReqs)
    /\ (opName = "getIP" /\ opPc = "loop") =>
         \A i \in 1..Len(ipReqs) : ~ipReqs[i].accepted
    /\ (opName = "getIP" /\ opPc = "returned" /\ variant # "local") =>
         \/ Len(ipReqs) > 0 /\ ipReqs[Len(ipReqs)].accepted
         \/ Len(ipReqs) = NumIpApis(variant)

\* getIP returned the parse of its third candidate after two failures.
C6_Witness ==
    /\ opName = "getIP" /\ opPc = "returned"
    /\ Len(ipReqs) = 3
    /\ ipReqs[3].accepted

\* C7: when the first candidate answers {ip: 203.0.113.5, country_code: SG},
\* getIP returns that ip and the country SG, in every variant with a lookup.
C7_CountryCodeAlias ==
    (/\ opName = "getIP" /\ opPc = "returned"
     /\ lastReq # NoRequest
     /\ lastReq.api = 1 /\ lastReq.accepted /\ lastReq.body = SpecBody) =>
        /\ ret.ip = IpText("203.0.113.5")
        /\ ret.country = "SG"

\* C8: where candidates are iterated (IP lookup, ping, single-shot download
\* and upload) a non-2xx response is a failure of the candidate: nothing of
\* it is recorded as a measurement and the next candidate is tried.
C8_Non2xxIsFailure ==
    (lastReq # NoRequest /\ lastReq.outcome = "non2xx") => ~lastReq.accepted

\* C9: the latency phase records exactly pingSamples samples, a failed sample
\* being retried on the next candidate and, all failing, replaced by a
\* synthesized value: none is dropped from the set that is averaged.
C9_ExactlyPingSamples ==
    (opName = "testPing" /\ opPc = "returned") => Len(samples) = pingSamples

RECURSIVE TotalOf(_, _)
\* The sum of the first n of s.
TotalOf(s, n) == IF n = 0 THEN RatInt(0) ELSE RatAdd(TotalOf(s, n - 1), s[n])

\* C10: avgMs is the arithmetic mean of the recorded samples, minMs their
\* minimum and maxMs their maximum, so that minMs <= avgMs <= maxMs.
C10_Statistics ==
    (opName = "testPing" /\ opPc = "returned") =>
        LET n == Len(samples) IN
        /\ n > 0
        /\ RatMul(ret.avgMs, RatInt(n)) = TotalOf(samples, n)
        /\ \E i \in 1..n : RatLe(samples[i], ret.avgMs)
        /\ \E i \in 1..n : RatLe(ret.avgMs, samples[i])
        /\ variant \in {"zap", "local"} =>
             /\ \E i \in 1..n : samples[i] = ret.minMs
             /\ \E i \in 1..n : samples[i] = ret.maxMs
             /\ \A i \in 1..n : RatLe(ret.minMs, samples[i]) /\ RatLe(samples[i], ret.maxMs)
             /\ RatLe(ret.minMs, ret.avgMs)
             /\ RatLe(ret.avgMs, ret.maxMs)

\* testPing of zap.js returned the statistics of two different samples.
C10_Witness ==
    /\ variant = "zap"
    /\ opName = "testPing" /\ opPc = "returned"
    /\ Len(samples) = 2
    /\ samples[1] # samples[2]
    /\ RatLt(ret.minMs, ret.avgMs) /\ RatLt(ret.avgMs, ret.maxMs)

\* A throughput phase of a multi-round variant is under way or has returned.
InRounds == opName \in TransferOps /\ variant # "simple"

\* The fewest rounds after which a phase can be stable.
MinStableRounds(v, op) ==
    CASE v = "zap" -> 4
      [] v = "local" -> IF op = "testDownload" THEN 5 ELSE 4
      [] OTHER -> IF op = "testDownload" THEN 4 ELSE 3

\* C11: a throughput phase never declares stability on round 1: when it is
\* stable, at least stabilityWindow + 1 rounds have been performed (4 for
\* zap.js and the LibreSpeed download, 3 for the LibreSpeed upload, 5 for the
\* local download), whatever the round throughputs.
C11_NoEarlyStability ==
    (InRounds /\ isStable) =>
        /\ roundCount > 1
        /\ roundCount >= MinStableRounds(variant, opName)

\* The local download is stable after exactly five rounds.
C11_Witness ==
    /\ variant = "local" /\ opName = "testDownload"
    /\ isStable
    /\ roundCount = 5

\* C12: a phase is stable only if, at the round where the loop stopped, the
\* counter had reached the window and the elapsed time minTestDuration; a
\* loop that stopped at the time limit or the round cap is not stable.
C12_StableOnlyWhenDeclared ==
    InRounds =>
        /\ isStable => /\ stableCount >= stabilityWindow(variant, opName)
                       /\ totalTime >= minTestDuration(variant, opName)
        /\ opPc = "loop" => ~isStable
        /\ (opPc \in {"summary", "returned"} /\ ~isStable) =>
              \/ totalTime >= maxTestDuration(variant, opName)
              \/ roundCount >= RoundCap(variant, opName)
        /\ (opPc = "returned" /\ variant \in {"zap", "local"}) => ret.stable = isStable

\* The download of zap.js reached the window in round 4, before
\* minTestDuration, and was declared stable in a later round.
C12_Witness ==
    /\ variant = "zap" /\ opName = "testDownload"
    /\ isStable
    /\ roundCount > 4
    /\ stableCount = roundCount - 1

\* Whether round k is within the tolerance of round k - 1.
Qualifies(k) ==
    /\ k > 1
    /\ LET cur == measurements[k].throughput
           prev == measurements[k - 1].throughput
       IN  /\ RatLt(RatInt(0), prev)
           /\ RatLt(RatAbs(RatSub(cur, prev)), RatMul(prev, Tolerance(variant, opName)))

RECURSIVE RunLength(_)
\* The length of the longest run of qualifying rounds that ends at round k.
RunLength(k) == IF k = 0 \/ ~Qualifies(k) THEN 0 ELSE 1 + RunLength(k - 1)

\* C13: after every round the counter is the length of the longest run of
\* rounds ending at the current one each of which differs from its
\* predecessor by less than the tolerance fraction of the predecessor; a
\* round that does not qualify, one after a zero-throughput round included,
\* resets it to zero.
C13_CounterIsRunLength ==
    (InRounds /\ opPc \in {"loop", "summary", "returned"}) =>
        stableCount = RunLength(Len(measurements))

\* The real variant: a counter that had counted was reset by a round that
\* follows a zero-throughput round.
C13_Witness ==
    /\ variant = "real" /\ opName = "testDownload"
    /\ Len(measurements) >= 4
    /\ Qualifies(Len(measurements) - 2)
    /\ measurements[Len(measurements) - 1].bytes = 0
    /\ measurements[Len(measurements)].bytes > 0
    /\ stableCount = 0

\* The round cap the claim states.
StatedCap(v, op) ==
    IF v = "real" THEN (IF op = "testDownload" THEN 20 ELSE 15)
                  ELSE (IF op = "testDownload" THEN 50 ELSE 30)

\* C14: the loop performs at least one round and never more than its cap (50
\* download / 30 upload in ZapZapSpeedTest, 20 / 15 in LibreSpeed), and no
\* round is started once the elapsed time has reached maxTestDuration or
\* stability has been declared.
C14_RoundBounds ==
    /\ [](InRounds =>
            /\ roundCount <= StatedCap(variant, opName)
            /\ opPc \in {"summary", "returned"} => roundCount >= 1)
    /\ [][(InRounds /\ roundCount' = roundCount + 1) =>
            /\ totalTime < maxTestDuration(variant, opName)
            /\ ~isStable
            /\ roundCount < StatedCap(variant, opName)]_vars

\* The download of zap.js returned after its fiftieth round.
C14_Witness ==
    /\ variant = "zap" /\ opName = "testDownload" /\ opPc = "returned"
    /\ roundCount = 50

\* C15: the reported overall mbps is the total bits transferred over all
\* rounds divided by the total elapsed time (bytes x 8 / seconds /
\* 1,000,000), rounds that transferred nothing included.
C15_OverallThroughput ==
    (InRounds /\ opPc = "returned") =>
        ret.mbps = RatMul(Rat(totalBytes, 1000000), Rat(8000, totalTime))

\* C16: 1,000,000 bytes transferred in exactly 100 ms are 80 Mbps in every
\* variant's throughput formula: the round throughput of the multi-round
\* variants and the single-shot download of the simple variant, whose return
\* value records the size and the time it measured.
C16_MegabitIsMillionBits ==
    /\ \A v \in {"zap", "real", "local"} : RoundThroughput(v, 1000000, 100) = RatInt(80)
    /\ (/\ variant = "simple" /\ opName = "testDownload" /\ opPc = "returned"
        /\ lastReq.accepted
        /\ RatMul(ret.sizeMB, RatInt(MiB)) = RatInt(1000000)
        /\ ret.sec = Rat(100, 1000))
       => ret.mbps = RatInt(80)

\* The throughputs of the recorded rounds, in the order of the rounds.
Throughputs == [k \in 1..Len(measurements) |-> measurements[k].throughput]

\* The mean of the throughputs without one smallest and one largest of them.
MeanWithoutEnds ==
    RatDiv(RatSub(RatSub(SumSeq(Throughputs), MinSeq(Throughputs)), MaxSeq(Throughputs)),
           RatInt(Len(measurements) - 2))

\* C17: for exactly 10 round measurements sorted ascending by throughput the
\* trimmed stable throughput is the average of the measurements at sorted
\* indices 1 through 8: exactly index 0 and index 9 are dropped.
C17_TrimsOneFromEachEnd ==
    (InRounds /\ opPc = "returned" /\ Len(measurements) = 10) =>
        LET kept == StableMeasurements(measurements) IN
        /\ kept = SubSeq(SortByThroughput(measurements), 2, 9)
        /\ Average([k \in 1..Len(kept) |-> kept[k].throughput]) = MeanWithoutEnds
        /\ variant \in {"zap", "local"} => ret.stableMbps = MeanWithoutEnds

\* The download of zap.js returned after ten rounds of different throughput.
C17_Witness ==
    /\ variant = "zap" /\ opName = "testDownload" /\ opPc = "returned"
    /\ Len(measurements) = 10
    /\ MinSeq(Throughputs) # MaxSeq(Throughputs)
    /\ ret.stableMbps # ret.mbps

\* C18: within a round all parallelStreams attempts are started before any
\* of them is awaited, and the round's byte count is computed and the next
\* round started only after every attempt of the round has settled: no
\* attempt of round k is outstanding when round k + 1 begins.
C18_RoundWaitsForAllStreams ==
    /\ [](InRounds =>
            /\ opPc = "await" => DOMAIN streams = 1..parallelStreams(variant, opName)
            /\ opPc \in {"loop", "summary", "returned"} => Outstanding = {})
    /\ [][(InRounds /\ (roundCount' = roundCount + 1 \/ (opPc = "loop" /\ opPc' = "await"))) =>
            Outstanding = {}]_vars

\* The second round of a real phase with some attempts settled and some not.
C18_Witness ==
    /\ variant = "real" /\ opName \in TransferOps /\ opPc = "await"
    /\ roundCount = 1
    /\ Outstanding # {}
    /\ Outstanding # DOMAIN streams

RECURSIVE SucceededBytes(_)
\* The bytes of the attempts 1..n of the last round that succeeded.
SucceededBytes(n) ==
    IF n = 0 THEN 0
    ELSE SucceededBytes(n - 1) +
         (IF streams[n].outcome \in {"ok", "badbody"}
            THEN StreamBytes(variant, opName, n, streams[n]) ELSE 0)

\* testDownloadFallback has awaited its batch.
BatchAwaited ==
    /\ variant = "real" /\ streams # <<>>
    /\ \/ opName = "testDownloadFallback" /\ opPc \in {"caught", "returned"}
       \/ opName = "testPing" /\ caller = "testDownloadFallback"

\* C19: in a throughput round and in the batch of the fallback download a
\* failed attempt contributes zero bytes and does not abort the batch: the
\* bytes of the attempts that succeeded are counted, whichever attempts
\* fail.
C19_FailedStreamCountsZero ==
    /\ (InRounds /\ opPc \in {"loop", "summary", "returned"} /\ roundCount >= 1) =>
          measurements[roundCount].bytes = SucceededBytes(Len(streams))
    /\ BatchAwaited => totalBytes = FallbackSize(streams, Len(streams))

\* The least value the fallback tests return.
FallbackFloor(op) == IF op = "testDownload" THEN RatInt(1) ELSE RatInt(5)

\* C20: in the real variant, when every transfer of every round failed,
\* testDownload and testUpload return the value of testDownloadFallback /
\* testUploadFallback, which is at least 1 Mbps (download) or 5 Mbps
\* (upload), and not a value derived from the zero-byte rounds.
C20_FallsBackWhenAllFail ==
    (/\ variant = "real" /\ InRounds /\ opPc = "returned"
     /\ roundCount >= 1
     /\ \A k \in 1..Len(measurements) : measurements[k].bytes = 0)
    => RatLe(FallbackFloor(opName), ret.mbps)

\* The places of the error events among the delivered events.
ErrorEvents == {i \in 1..Len(events) : events[i] = "error"}

\* C21: in every variant whose run() accepts a progress callback, when an
\* exception escapes a phase or the callback, the callback receives exactly
\* one error event, as the last event, and run() rejects with the exception.
C21_ErrorEventOnFailure ==
    (HasCallback(variant) /\ runPc = "threw") =>
        /\ runThrew \in {"phase", "callback"}
        /\ Cardinality(ErrorEvents) = 1
        /\ events[Len(events)] = "error"

\* C22: the IP lookup always terminates: every candidate attempt, the
\* reading of the response body included, is bounded by the 5 s timeout, so
\* a candidate that never responds or never finishes its body cannot block
\* the lookup forever.
C22_LookupTerminates == (opName = "getIP") ~> (opName = "getIP" /\ opPc = "returned")

\* C23: after run() has finished on a ZapZapSpeedTest instance, returned or
\* thrown, whatever calls of generateTestData and createTestBlob preceded
\* it, the instance holds no generated payload: testBlob is null, its object
\* URL revoked, and testData released.
C23_NoPayloadAfterRun ==
    [][(/\ variant \in {"zap", "local"}
        /\ runPc \notin {"done", "threw"}
        /\ runPc' \in {"done", "threw"})
       => /\ testBlob' = Null
          /\ liveUrls' = {}
          /\ testData' = Null]_vars

\* A step of run() or of one of its phases, while the run is under way: any
\* step but a caller's generateTestData or createTestBlob.
RunStep ==
    /\ runPc \notin {"idle", "done", "threw"}
    /\ ~generateTestData(PayloadSizes)
    /\ ~createTestBlob(PayloadSizes)

\* No step of a run writes the configuration or testData, and lastPing is
\* written by testPing only, so it is the same throughout both throughput
\* phases.
RunFrame ==
    /\ <<variant, pingSamples, uploadSize, testData, urlCount>>' =
         <<variant, pingSamples, uploadSize, testData, urlCount>>
    /\ lastPing' # lastPing => opName = "testPing"
    /\ runPc \in {"download", "upload"} => lastPing' = lastPing

\* C24 as stated: lastPing is the only instance state written during a run,
\* it is written only by testPing, and getIP, testDownload, testUpload and
\* the chunk simulators leave it unchanged, so that every simulated stream of
\* both throughput phases reads the same ping value.
C24_OnlyLastPingWritten ==
    [][RunStep => (RunFrame /\ UNCHANGED <<testBlob, liveUrls>>)]_vars

\* C24, amended: the same, except that the clean-up at the end of run()
\* revokes the object URL of testBlob and sets the field to null.
C24_LastPingAndCleanup ==
    [][RunStep =>
         /\ RunFrame
         /\ \/ UNCHANGED <<testBlob, liveUrls>>
            \/ /\ runPc = "upload" /\ runPc' = "done"
               /\ testBlob # Null /\ testBlob' = Null
               /\ liveUrls' = liveUrls \ {testBlob.url}]_vars

\* A run of zap.js has stored its ping, gone through both throughput phases
\* and cleaned up the blob a caller had created.
C24_Witness ==
    /\ variant = "zap" /\ runPc = "done"
    /\ lastPing # Undefined
    /\ urlCount > 0 /\ testBlob = Null /\ liveUrls = {}


\* C26: testDownloadFallback returns the value measured from its batch
\* whenever at least one of the 20 requests succeeded, and takes the
\* ping-based estimate only when all 20 failed; a rejection of some of the
\* requests does not discard the others.
C26_MeasuredIfAnySucceeds ==
    (BatchAwaited /\ SuccessCount(streams) > 0) =>
        /\ opName = "testDownloadFallback" /\ opPc = "returned"
        /\ totalTime > 0
        /\ ret = FallbackMeasured(FallbackSize(streams, Len(streams)), totalTime)

\* The size named by the URL stream i of a download round requests:
\* downloadEndpoints is bytes/1048576, bytes/2097152, bytes/5242880 and the
\* same three sizes of stream-bytes, and stream i requests the i-th.
RequestedSize == <<1048576, 2097152, 5242880, 1048576, 2097152, 5242880>>

\* What stream i of the last round adds, as stated: its declared
\* content-length when it answered 2xx with one, the size of the endpoint
\* it requested when it answered 2xx without, nothing otherwise.
StatedContribution(i) ==
    IF streams[i].outcome \in {"reject", "non2xx"} THEN 0
    ELSE IF streams[i].contentLength # NoHeader THEN streams[i].contentLength
    ELSE RequestedSize[i]

RECURSIVE StatedRoundBytes(_)
StatedRoundBytes(n) ==
    IF n = 0 THEN 0 ELSE StatedRoundBytes(n - 1) + StatedContribution(n)

\* C25: in a download round of the real variant each stream that answered
\* 2xx adds its declared content-length if there is one and otherwise the
\* payload size of the endpoint that stream requested; a rejected or
\* non-2xx stream adds nothing.
C25_RoundBytesPerStream ==
    (variant = "real" /\ opName = "testDownload" /\ roundCount >= 1
        /\ opPc \in {"loop", "summary", "returned"}) =>
      /\ Len(streams) = MaxStreams
      /\ measurements[roundCount].bytes = StatedRoundBytes(MaxStreams)

\* A round in which stream 1 was rejected, stream 6 answered non-2xx, stream
\* 3 declared its length and streams 2, 4 and 5 did not.
C25_Witness ==
    /\ variant = "real" /\ opName = "testDownload" /\ roundCount = 2
    /\ opPc \in {"loop", "summary"}
    /\ Len(streams) = MaxStreams
    /\ streams[1].outcome = "reject" /\ streams[6].outcome = "non2xx"
    /\ streams[3].contentLength = 1000
    /\ streams[2].contentLength = NoHeader /\ streams[2].outcome = "ok"
    /\ measurements[2].bytes = 1000 + 2097152 + 1048576 + 2097152

\* lastPing after a call that measured avg, as stated: the average itself
\* after the first call, the weighted mean of the stored value and the
\* average after a later one.
StatedLastPing(old, avg) ==
    IF old = Undefined THEN avg
    ELSE IF RatLt(RatInt(500), avg)
      THEN RatAdd(RatMul(old, Rat(3, 10)), RatMul(avg, Rat(7, 10)))
      ELSE RatAdd(RatMul(old, Rat(7, 10)), RatMul(avg, Rat(3, 10)))

\* x lies between a and b, the ends included.
Between(x, a, b) ==
    \/ RatLe(a, x) /\ RatLe(x, b)
    \/ RatLe(b, x) /\ RatLe(x, a)

\* The step on which testPing of zap.js returns.
PingReturns ==
    /\ variant = "zap" /\ opName = "testPing"
    /\ opPc = "loop" /\ opPc' = "returned"

\* C27: on one instance of zap.js the first testPing stores its avgMs in
\* lastPing, and every later one stores 0.3*old + 0.7*avg when avg > 500 and
\* 0.7*old + 0.3*avg otherwise, so that the new lastPing lies between the old
\* one and the new avgMs.
C27_LastPingSmoothing ==
    [][PingReturns =>
         /\ lastPing' = StatedLastPing(lastPing, ret'.avgMs)
         /\ lastPing # Undefined => Between(lastPing', lastPing, ret'.avgMs)]_vars

\* The measurements kept are those left when k are taken from each end of
\* the ascending order.
TrimsBothEndsBy(k) ==
    StableMeasurements(measurements) =
        SubSeq(SortByThroughput(measurements), k + 1, Len(measurements) - k)

\* C28: for every number n >= 1 of round measurements the trim removes as
\* many measurements from the low end of the ascending order as from the
\* high end, and the stableMbps returned lies between the smallest and the
\* largest round throughput.
C28_SymmetricTrim ==
    (InRounds /\ opPc = "returned" /\ Len(measurements) >= 1) =>
        /\ \E k \in 0..Len(measurements) : TrimsBothEndsBy(k)
        /\ variant \in {"zap", "local"} =>
              Between(ret.stableMbps, MinSeq(Throughputs), MaxSeq(Throughputs))

\* The places of the complete events among the delivered events.
CompleteEvents == {i \in 1..Len(events) : events[i] = "complete"}

\* C29: a run() with a progress callback delivers either one complete event
\* or one error event, never both: no error event follows the complete
\* event, also when the callback throws while it handles an event.
C29_CompleteOrErrorNotBoth ==
    HasCallback(variant) =>
        /\ CompleteEvents = {} \/ ErrorEvents = {}
        /\ (variant = "real" /\ runPc \in {"done", "threw"}) =>
              Cardinality(CompleteEvents) + Cardinality(ErrorEvents) = 1

\* C30: across createTestBlob and run() calls on one ZapZapSpeedTest
\* instance at most one object URL the instance created is un-revoked at any
\* time, and testBlob refers to that URL or is null.
C30_OneLiveUrl ==
    /\ Cardinality(liveUrls) <= 1
    /\ IF testBlob = Null THEN liveUrls = {} ELSE liveUrls = {testBlob.url}

=============================================================================
